---- MODULE Spec2Model ----
(***************************************************************************)
(* Model of the satellite-data pipeline of scripts/collect_data.py         *)
(* (acquire -> extract -> collect) and scripts/upload_to_mysql.py          *)
(* (ingest into the relational store with a CSV backup).                   *)
(*                                                                         *)
(* Numbers: a Python float is modelled as Float(n) with n an integer count *)
(* of a fixed unit (raster cells: 1/100 kelvin or degree Celsius for LST,   *)
(* 1/1000 for NDVI), not-a-number as NaN and Python's None as None.        *)
(***************************************************************************)
EXTENDS Integers, Sequences, FiniteSets, TLC

VARIABLES
    \* ---- extract_pixel_value called on its own (SpecExtract)
    xpc,            \* "call" | "returned"
    xfile,          \* the HDF5 file read
    xlat, xlon,     \* the query coordinate
    xname,          \* dataset_name
    xresult,        \* the returned dictionary
    \* ---- collect_satellite_data (SpecCollect)
    cpc,            \* "idle" | "acquire" | "extract" | "returned" | "raised"
    cargs,          \* [lat, lon, target_date, use_mock] of the running call
    cenv,           \* [GPORTAL_AVAILABLE, H5PY_AVAILABLE, NUMPY_AVAILABLE, credentials]
    cidx,           \* position of the for loop in Products
    hdf5_path,      \* the path the acquisition returned, or None
    result,         \* the record being assembled
    fs,             \* scratch directory TEMP_DIR: path -> file
    writes,         \* log: path -> how many times it was opened for writing
    acq,            \* log: product -> how its file was acquired in this call
    cruns,          \* calls started so far
    \* ---- upload_to_mysql.main (SpecIngest)
    ipc,            \* position of main
    iargs,          \* [location_id, backup_only] of the running process
    PYMYSQL_AVAILABLE,
    environ,        \* os.environ: the MYSQL_* variables that are set
    mysql_config,   \* what get_mysql_config returned, None before the call
    input_file,     \* content of the --input file, None when it cannot be read
    observation,    \* what extract_observation_data returned
    connection,     \* None or the connection object
    pending,        \* the exception on its way to the handler, or None
    exit_code,      \* None while running, then 0 or 1
    observations,   \* the observations table (committed rows)
    ingested,       \* log: key -> the lst and ndvi of its latest committed upsert
    backups,        \* BACKUP_DIR: timestamp -> rows of backup_<timestamp>.csv
    clock,          \* the last second datetime.now() returned
    ilog,           \* log of the running process
    iruns           \* processes started so far

xvars == <<xpc, xfile, xlat, xlon, xname, xresult>>
cvars == <<cpc, cargs, cenv, cidx, hdf5_path, result, fs, writes, acq, cruns>>
ivars == <<ipc, iargs, PYMYSQL_AVAILABLE, environ, mysql_config, input_file, observation, connection,
           pending, exit_code, observations, ingested, backups, clock, ilog, iruns>>
vars == <<xvars, cvars, ivars>>

\* ------------------------------------------------------------------ bounds
MaxDim == 6         \* largest number of rows / columns of an input grid
MockDim == 3        \* side of a generated mock grid (100 in the code)
MaxCollectRuns == 2 \* calls of collect_satellite_data in one behaviour
MaxIngestRuns == 2  \* runs of upload_to_mysql.py in one behaviour
MaxClock == 1       \* seconds the wall clock may advance

\* ------------------------------------------------------------------ values
NaN == [t |-> "nan"]
None == [t |-> "None"]
Float(n) == [t |-> "float", v |-> n]
IsNaN(x) == x.t = "nan"

Max(a, b) == IF a >= b THEN a ELSE b
Min(a, b) == IF a <= b THEN a ELSE b

\* the offset between Kelvin and Celsius, 273.15, in 1/100 degree
KelvinOffset == 27315

\* ------------------------------------------------------- RasterGridFile
\* A file is [readable, geo, img]: geo is None or [Latitude, Longitude]
\* (matrices of integer coordinates), img maps each dataset name held in
\* group Image_data to its matrix of Float / NaN cells.  A matrix is a
\* function [0..rows-1 -> [0..cols-1 -> cell]].
Rows(m) == Cardinality(DOMAIN m)
Cols(m) == IF Rows(m) = 0 THEN 0 ELSE Cardinality(DOMAIN m[0])

\* np.sqrt((lat_grid - lat)**2 + (lon_grid - lon)**2), kept squared: the
\* square root is strictly increasing on the exact integers used here, so
\* np.argmin picks the same cell.
Distances(lat_grid, lon_grid, lat, lon) ==
    [i \in DOMAIN lat_grid |-> [j \in DOMAIN lat_grid[i] |->
        (lat_grid[i][j] - lat) * (lat_grid[i][j] - lat)
      + (lon_grid[i][j] - lon) * (lon_grid[i][j] - lon)]]

\* (mutant) the last index of the minimum
ArgMinLast(d) ==
    LET cols == Cols(d)
        n == Rows(d) * cols
        at(k) == d[k \div cols][k % cols]
    IN  CHOOSE k \in 0..(n - 1) :
            /\ \A m \in 0..(n - 1) : at(k) <= at(m)
            /\ \A m \in (k + 1)..(n - 1) : at(m) > at(k)

\* np.argmin over the row-major flattening: the first index of the minimum
ArgMin(d) ==
    LET cols == Cols(d)
        n == Rows(d) * cols
        at(k) == d[k \div cols][k % cols]
    IN  CHOOSE k \in 0..(n - 1) :
            /\ \A m \in 0..(n - 1) : at(k) <= at(m)
            /\ \A m \in 0..(k - 1) : at(m) > at(k)

\* np.unravel_index(k, shape)
UnravelIndex(k, cols) == <<k \div cols, k % cols>>

\* the 5x5 window of extract_pixel_value, clipped at the array edges
window_size == 5

\* (mutant) the end indices taken for inclusive: the slice stops one cell early
WindowBoundsEndInclusive(i, j, rows, cols) ==
    [i_start |-> Max(0, i - window_size \div 2),
     i_end   |-> Min(rows, i + window_size \div 2),
     j_start |-> Max(0, j - window_size \div 2),
     j_end   |-> Min(cols, j + window_size \div 2)]

WindowBounds(i, j, rows, cols) ==
    [i_start |-> Max(0, i - window_size \div 2),
     i_end   |-> Min(rows, i + window_size \div 2 + 1),
     j_start |-> Max(0, j - window_size \div 2),
     j_end   |-> Min(cols, j + window_size \div 2 + 1)]

\* data[i_start:i_end, j_start:j_end] as the set of its cell indices
WindowCells(b) == (b.i_start..(b.i_end - 1)) \X (b.j_start..(b.j_end - 1))

\* window_data[~np.isnan(window_data)]: the cells that hold a number
WindowClean(data, b) == {c \in WindowCells(b) : ~IsNaN(data[c[1]][c[2]])}

\* sum of (cell - off)^pow over the cells
RECURSIVE SumOver(_, _, _, _)
SumOver(data, cells, off, pow) ==
    IF cells = {} THEN 0
    ELSE LET c == CHOOSE c \in cells : TRUE
             v == data[c[1]][c[2]].v - off
         IN  (IF pow = 2 THEN v * v ELSE v) + SumOver(data, cells \ {c}, off, pow)

\* largest r in lo..hi with r*r <= n, by bisection
RECURSIVE SqrtBetween(_, _, _)
SqrtBetween(n, lo, hi) ==
    IF lo >= hi THEN lo
    ELSE LET mid == (lo + hi + 1) \div 2
         IN  IF mid * mid <= n THEN SqrtBetween(n, mid, hi)
             ELSE SqrtBetween(n, lo, mid - 1)

\* largest r with r*r <= n (n < 2^31, so r < 46341)
ISqrt(n) == SqrtBetween(n, 0, Min(n, 46340))

\* np.mean / np.std (population: the root of the mean squared deviation
\* from the mean) / np.min / np.max of the clean window, in the integer unit
\* of the data (mean and std rounded down to that unit)
WindowStats(data, clean, dataset_name) ==
    LET n == Cardinality(clean)
        vals == {data[c[1]][c[2]].v : c \in clean}
        lo == CHOOSE v \in vals : \A w \in vals : v <= w
        hi == CHOOSE v \in vals : \A w \in vals : v >= w
        mean == lo + SumOver(data, clean, lo, 1) \div n
        base == [mean |-> Float(mean),
                 std  |-> Float(ISqrt(SumOver(data, clean, mean, 2) \div n)),
                 min  |-> Float(lo),
                 max  |-> Float(hi)]
    IN  IF dataset_name = "LST"
        THEN base @@ [mean_celsius |-> Float(mean - KelvinOffset)]
        ELSE base

\* extract_pixel_value(hdf5_path, lat, lon, dataset_name), libs being
\* H5PY_AVAILABLE and NUMPY_AVAILABLE
ExtractPixelValue(file, lat, lon, dataset_name, libs) ==
    IF ~libs THEN [error |-> "libs"]
    ELSE IF ~file.readable THEN [error |-> "extract"]      \* h5py.File raises
    ELSE IF dataset_name \notin DOMAIN file.img THEN [error |-> "nodataset"]
    ELSE IF file.geo = None THEN [error |-> "extract"]      \* KeyError
    ELSE IF Rows(file.img[dataset_name]) * Cols(file.img[dataset_name]) = 0
         THEN [error |-> "extract"]                         \* argmin of empty
    ELSE
    LET data == file.img[dataset_name]
        lat_grid == file.geo.Latitude
        lon_grid == file.geo.Longitude
        min_idx == UnravelIndex(ArgMin(Distances(lat_grid, lon_grid, lat, lon)),
                                Cols(lat_grid))
        i == min_idx[1]
        j == min_idx[2]
        pixel_value == data[i][j]
        pixel_value_celsius ==
            IF dataset_name = "LST"
            THEN (IF IsNaN(pixel_value) THEN NaN
                  ELSE Float(pixel_value.v - KelvinOffset))
            ELSE None
        b == WindowBounds(i, j, Rows(data), Cols(data))
        window_data_clean == WindowClean(data, b)
        window_stats ==
            IF Cardinality(window_data_clean) > 0
            THEN WindowStats(data, window_data_clean, dataset_name)
            ELSE None
        payload ==
            [dataset |-> dataset_name,
             pixel_value |-> pixel_value,
             pixel_location |-> [row |-> i, col |-> j,
                                 latitude |-> lat_grid[i][j],
                                 longitude |-> lon_grid[i][j]],
             window_statistics |-> window_stats]
    IN  IF pixel_value_celsius # None
        THEN payload @@ [pixel_value_celsius |-> pixel_value_celsius]
        ELSE payload

\* ------------------------------------------------------- input files
Products == <<"LST", "NDVI">>

\* A grid of the given shape: coordinates two units apart (latitude running
\* down or up the rows), the cells of the first nanRows rows not-a-number,
\* the others base + 10*i + j.
GridFile(rows, cols, latDir, nanRows, base, names) ==
    [readable |-> TRUE,
     geo |-> [Latitude  |-> [i \in 0..(rows - 1) |-> [j \in 0..(cols - 1) |->
                                IF latDir = 1 THEN 2 * i ELSE 2 * (rows - 1 - i)]],
              Longitude |-> [i \in 0..(rows - 1) |-> [j \in 0..(cols - 1) |-> 2 * j]]],
     img |-> [n \in names |-> [i \in 0..(rows - 1) |-> [j \in 0..(cols - 1) |->
                                IF i < nanRows THEN NaN
                                ELSE Float(base + 10 * i + j)]]]]

\* the level of the cells of an input grid: 280.00 K, NDVI 0.200
BaseOf(name) == IF name = "LST" THEN 28000 ELSE 200

ExtractInputs ==
    UNION {{GridFile(r, c, d, k, BaseOf(n), {n}) :
                c \in 1..MaxDim, d \in {1, -1}, k \in {0, 1, r},
                n \in {"LST", "NDVI"}} : r \in 1..MaxDim}
    \cup {GridFile(0, 0, 1, 0, 0, {"LST", "NDVI"}),
          [readable |-> FALSE, geo |-> None, img |-> <<>>],
          [GridFile(2, 2, 1, 0, 0, {"LST"}) EXCEPT !.geo = None]}

\* ------------------------------------------------------- Acquirer
\* a pathlib.Path below TEMP_DIR
Path(name) == [t |-> "path", name |-> name]

\* filename = f"GC1SG1_{date_str}01D01D_{product_type}_MOCK.h5": the path is
\* decided by the date and the product alone
MockPath(target_date, product_type) == Path(<<"MOCK", target_date, product_type>>)

\* np.clip(np.random.normal(mean, std), lo, hi): the lower clip, the mean
\* and the upper clip stand for the draws (273.0, 291.5, 320.0 K; 0.0, 0.75,
\* 1.0)
MockValues(product_type) ==
    IF product_type = "LST" THEN <<27300, 29150, 32000>>
    ELSE <<0, 750, 1000>>

\* the file create_mock_hdf5 writes: np.linspace(lat - 0.5, lat + 0.5, n)
\* crossed with the same for lon, in the unit 0.5/(n-1) degree, so that
\* neighbouring cells are 2 units apart
MockFile(lat, lon, product_type, seed) ==
    [readable |-> TRUE,
     geo |-> [Latitude  |-> [i \in 0..(MockDim - 1) |-> [j \in 0..(MockDim - 1) |->
                                lat - (MockDim - 1) + 2 * i]],
              Longitude |-> [i \in 0..(MockDim - 1) |-> [j \in 0..(MockDim - 1) |->
                                lon - (MockDim - 1) + 2 * j]]],
     img |-> [n \in {product_type} |->
                [i \in 0..(MockDim - 1) |-> [j \in 0..(MockDim - 1) |->
                    Float(MockValues(product_type)[((seed + i + j) % 3) + 1])]]]]

\* create_mock_hdf5: the outcomes [tag, path, file, raised]; a file is
\* written (mode 'w') exactly when tag = "mock"; raised says the call ended
\* in an exception instead of returning
CreateMockHdf5(lat, lon, target_date, product_type, env) ==
    IF ~env.H5PY_AVAILABLE \/ ~env.NUMPY_AVAILABLE
    THEN {[tag |-> "mock_failed", path |-> None, file |-> None, raised |-> FALSE]}
    ELSE {[tag |-> "mock", path |-> MockPath(target_date, product_type),
           file |-> MockFile(lat, lon, product_type, seed), raised |-> FALSE] :
              seed \in {0, 1}}

\* what the service may deliver for a product: a well-formed grid, a file
\* without the Image_data/<product> dataset, a file h5py cannot open
DownloadedFiles(product_type) ==
    {GridFile(2, 2, -1, 0, BaseOf(product_type), {product_type}),
     GridFile(2, 2, -1, 0, BaseOf(product_type), {"QA_flag"}),
     [readable |-> FALSE, geo |-> None, img |-> <<>>]}

\* (mutant) search_and_download_real without its try/except: an exception of
\* the service leaves the function
SearchAndDownloadRealUncaught(lat, lon, target_date, product_type, env) ==
    IF ~env.GPORTAL_AVAILABLE
    THEN {[tag |-> "unavailable", path |-> None, file |-> None, raised |-> FALSE]}
    ELSE {[tag |-> "transport_error", path |-> None, file |-> None, raised |-> TRUE],
          [tag |-> "no_match", path |-> None, file |-> None, raised |-> FALSE]}

\* search_and_download_real: the outcomes [tag, path, file, raised].  An
\* exception of the service ("transport_error") is caught by the function's
\* own except clause and becomes "no file".
SearchAndDownloadReal(lat, lon, target_date, product_type, env) ==
    IF ~env.GPORTAL_AVAILABLE
    THEN {[tag |-> "unavailable", path |-> None, file |-> None, raised |-> FALSE]}
    ELSE IF ~env.credentials
    THEN {[tag |-> "no_credentials", path |-> None, file |-> None, raised |-> FALSE]}
    ELSE {[tag |-> t, path |-> None, file |-> None, raised |-> FALSE] :
              t \in {"transport_error", "no_match", "no_download"}}
         \cup {[tag |-> "downloaded", path |-> Path(<<"DL", product_type>>), file |-> f,
                 raised |-> FALSE] : f \in DownloadedFiles(product_type)}
         \* a path is returned but no file is there
         \cup {[tag |-> "ghost", path |-> Path(<<"DL", product_type>>), file |-> None,
                 raised |-> FALSE]}

\* ------------------------------------------------------- Collector
Lower(product_type) == IF product_type = "LST" THEN "lst" ELSE "ndvi"

\* "mock" if use_mock else "gportal"
DataSource(use_mock) == IF use_mock THEN "mock" ELSE "gportal"

\* (mutant) the mock generator only on request
UseMockGeneratorOnRequest(use_mock, env) == use_mock

\* the branch of the loop body that calls create_mock_hdf5
UseMockGenerator(use_mock, env) == use_mock \/ ~env.GPORTAL_AVAILABLE

\* for product_type in ["LST", "NDVI"]: the loop goes on whatever the entry
NextProduct(idx, entry) == idx + 1

Coordinates == {<<0, 0>>, <<1, 0>>}
Dates == {"2026-01-08", "2026-01-09"}
CollectEnvs ==
    [GPORTAL_AVAILABLE : BOOLEAN, H5PY_AVAILABLE : BOOLEAN,
     NUMPY_AVAILABLE : BOOLEAN, credentials : BOOLEAN]

NoArgs == [lat |-> 0, lon |-> 0, target_date |-> "", use_mock |-> FALSE]
NoEnv == [GPORTAL_AVAILABLE |-> FALSE, H5PY_AVAILABLE |-> FALSE,
          NUMPY_AVAILABLE |-> FALSE, credentials |-> FALSE]
NoAcq == [p \in {"LST", "NDVI"} |-> "none"]

InitCollect ==
    /\ cpc = "idle"
    /\ cargs = NoArgs
    /\ cenv = NoEnv
    /\ cidx = 1
    /\ hdf5_path = None
    /\ result = None
    /\ fs = <<>>
    /\ writes = <<>>
    /\ acq = NoAcq
    /\ cruns = 0

\* collect_satellite_data is entered: the record is initialised
CollectCall ==
    /\ cpc \in {"idle", "returned", "raised"}
    /\ cruns < MaxCollectRuns
    /\ \E c \in Coordinates, d \in Dates, m \in BOOLEAN, e \in CollectEnvs :
        /\ cargs' = [lat |-> c[1], lon |-> c[2], target_date |-> d, use_mock |-> m]
        /\ cenv' = e
        /\ result' = [location |-> [latitude |-> c[1], longitude |-> c[2],
                                    name |-> "Observation Point"],
                      observation_date |-> d,
                      processing_time |-> "now",
                      data_source |-> DataSource(m),
                      observations |-> <<>>]
    /\ cidx' = 1
    /\ hdf5_path' = None
    /\ acq' = NoAcq
    /\ cruns' = cruns + 1
    /\ cpc' = "acquire"
    /\ UNCHANGED <<fs, writes, xvars, ivars>>

\* the loop body up to the file: the mock generator or the real service;
\* collect_satellite_data has no handler of its own, so an exception that
\* left the callee would end the call
Acquire ==
    /\ cpc = "acquire"
    /\ LET p == Products[cidx]
           outs == IF UseMockGenerator(cargs.use_mock, cenv)
                   THEN CreateMockHdf5(cargs.lat, cargs.lon, cargs.target_date, p, cenv)
                   ELSE SearchAndDownloadReal(cargs.lat, cargs.lon,
                                              cargs.target_date, p, cenv)
       IN  \E o \in outs :
            /\ hdf5_path' = o.path
            /\ fs' = IF o.file # None THEN (o.path :> o.file) @@ fs ELSE fs
            /\ writes' = IF o.file # None
                         THEN (o.path :> (IF o.path \in DOMAIN writes
                                          THEN writes[o.path] + 1 ELSE 1)) @@ writes
                         ELSE writes
            /\ acq' = [acq EXCEPT ![p] = o.tag]
            /\ cpc' = IF o.raised THEN "raised" ELSE "extract"
    /\ UNCHANGED <<cargs, cenv, cidx, result, cruns, xvars, ivars>>

\* the loop body from "if hdf5_path and hdf5_path.exists()" on
Extract ==
    /\ cpc = "extract"
    /\ LET p == Products[cidx]
           extraction ==
               ExtractPixelValue(fs[hdf5_path], cargs.lat, cargs.lon, p,
                                 cenv.H5PY_AVAILABLE /\ cenv.NUMPY_AVAILABLE)
           entry ==
               IF hdf5_path # None /\ hdf5_path \in DOMAIN fs
               THEN (IF "error" \notin DOMAIN extraction THEN extraction
                     ELSE [error |-> extraction.error])
               ELSE [error |-> "acquire"]
       IN  /\ result' = [result EXCEPT !.observations = (Lower(p) :> entry) @@ @]
           /\ cidx' = NextProduct(cidx, entry)
           /\ cpc' = IF NextProduct(cidx, entry) > Len(Products)
                     THEN "returned" ELSE "acquire"
    /\ UNCHANGED <<cargs, cenv, hdf5_path, fs, writes, acq, cruns, xvars, ivars>>

NextCollect == CollectCall \/ Acquire \/ Extract

InitExtractIdle ==
    /\ xpc = "returned"
    /\ xfile = None
    /\ xlat = 0
    /\ xlon = 0
    /\ xname = "LST"
    /\ xresult = None



\* ------------------------------------------------------- SpecExtract
InitExtract ==
    /\ xpc = "call"
    /\ xfile \in ExtractInputs
    /\ xlat \in -1..(2 * MaxDim - 1)
    /\ xlon \in -1..(2 * MaxDim - 1)
    /\ xname \in {"LST", "NDVI"}
    /\ xresult = None

ExtractCall ==
    /\ xpc = "call"
    /\ xresult' = ExtractPixelValue(xfile, xlat, xlon, xname, TRUE)
    /\ xpc' = "returned"
    /\ UNCHANGED <<xfile, xlat, xlon, xname, cvars, ivars>>

NextExtract == ExtractCall

\* ------------------------------------------------------- Ingestor
\* The numbers of an input record are finer than what is stored: lst
\* entries count 1/1000 degree Celsius and are stored in 1/100, ndvi entries
\* count 1/10000 and are stored in 1/1000.
Str(s) == [t |-> "str", s |-> s]

\* a pymysql connection, open until close() is called
Connection(open) == [t |-> "connection", open |-> open]

\* round(x, ndigits) dropping one decimal digit: to nearest, ties to even
RoundDigit(n) ==
    LET q == n \div 10
        r == n % 10
    IN  IF r > 5 \/ (r = 5 /\ q % 2 = 1) THEN q + 1 ELSE q

\* (mutant) lst read from pixel_value, whatever the entry offers
ExtractObservationDataRawValue(json_data) ==
    LET has(k) == "observations" \in DOMAIN json_data
                  /\ k \in DOMAIN json_data.observations
        lst_data == json_data.observations.lst
        ndvi_data == json_data.observations.ndvi
    IN  [observation_date |-> IF "observation_date" \in DOMAIN json_data
                              THEN json_data.observation_date ELSE None,
         lst |-> IF has("lst") /\ "error" \notin DOMAIN lst_data
                    /\ "pixel_value" \in DOMAIN lst_data
                 THEN Float(RoundDigit(lst_data.pixel_value.v))
                 ELSE None,
         ndvi |-> IF has("ndvi") /\ "error" \notin DOMAIN ndvi_data
                     /\ "pixel_value" \in DOMAIN ndvi_data
                  THEN Float(RoundDigit(ndvi_data.pixel_value.v))
                  ELSE None]

\* extract_observation_data(json_data)
ExtractObservationData(json_data) ==
    LET has(k) == "observations" \in DOMAIN json_data
                  /\ k \in DOMAIN json_data.observations
        lst_data == json_data.observations.lst
        ndvi_data == json_data.observations.ndvi
    IN  [observation_date |-> IF "observation_date" \in DOMAIN json_data
                              THEN json_data.observation_date ELSE None,
         lst |-> IF has("lst") /\ "error" \notin DOMAIN lst_data
                    /\ "pixel_value_celsius" \in DOMAIN lst_data
                 THEN Float(RoundDigit(lst_data.pixel_value_celsius.v))
                 ELSE None,
         ndvi |-> IF has("ndvi") /\ "error" \notin DOMAIN ndvi_data
                     /\ "pixel_value" \in DOMAIN ndvi_data
                  THEN Float(RoundDigit(ndvi_data.pixel_value.v))
                  ELSE None]

\* UNIQUE(location_id, observation_date) of the observations table
ObservationsKey(row) == <<row.location_id, row.observation_date>>

\* (mutant) ON DUPLICATE KEY UPDATE lst = COALESCE(VALUES(lst), lst), ...: a
\* null never replaces a stored value
UpsertKeepStored(table, row) ==
    IF \E r \in table : ObservationsKey(r) = ObservationsKey(row)
    THEN {IF ObservationsKey(r) = ObservationsKey(row)
          THEN [r EXCEPT !.lst = IF row.lst = None THEN @ ELSE row.lst,
                         !.ndvi = IF row.ndvi = None THEN @ ELSE row.ndvi]
          ELSE r : r \in table}
    ELSE table \cup {row}

\* (mutant) ON DUPLICATE KEY UPDATE lst = VALUES(lst) alone
UpsertLstOnly(table, row) ==
    IF \E r \in table : ObservationsKey(r) = ObservationsKey(row)
    THEN {IF ObservationsKey(r) = ObservationsKey(row)
          THEN [r EXCEPT !.lst = row.lst] ELSE r : r \in table}
    ELSE table \cup {row}

\* INSERT ... ON DUPLICATE KEY UPDATE lst = VALUES(lst), ndvi = VALUES(ndvi)
Upsert(table, row) ==
    IF \E r \in table : ObservationsKey(r) = ObservationsKey(row)
    THEN {IF ObservationsKey(r) = ObservationsKey(row)
          THEN [r EXCEPT !.lst = row.lst, !.ndvi = row.ndvi] ELSE r : r \in table}
    ELSE table \cup {row}

\* csv.DictWriter writes None as the empty string
CsvField(v) == IF v = None THEN Str("") ELSE v

fieldnames == <<"location_id", "observation_date", "lst", "ndvi", "error">>

\* the row save_to_csv_backup writes
BackupRow(obs, location_id, error_message) ==
    [kind |-> "data",
     location_id |-> location_id,
     observation_date |-> obs.observation_date,
     lst |-> CsvField(obs.lst),
     ndvi |-> CsvField(obs.ndvi),
     error |-> IF error_message = None THEN "" ELSE error_message.s]

HeaderRow == [kind |-> "header", fields |-> fieldnames]

\* (mutant) one ledger for all backups: the file name without the timestamp
SaveToCsvBackupSharedLedger(files, now, obs, location_id, error_message) ==
    LET file_exists == 0 \in DOMAIN files
        old == IF file_exists THEN files[0] ELSE <<>>
        header == IF ~file_exists THEN <<HeaderRow>> ELSE <<>>
        row == BackupRow(obs, location_id, error_message)
    IN  (0 :> (old \o header \o <<row>>)) @@ files

\* (mutant) the header written on every call
SaveToCsvBackupAlwaysHeader(files, now, obs, location_id, error_message) ==
    LET old == IF now \in DOMAIN files THEN files[now] ELSE <<>>
    IN  (now :> (old \o <<HeaderRow, BackupRow(obs, location_id, error_message)>>))
        @@ files

\* (mutant) the file opened in mode 'w'
SaveToCsvBackupTruncate(files, now, obs, location_id, error_message) ==
    (now :> <<HeaderRow, BackupRow(obs, location_id, error_message)>>) @@ files

\* save_to_csv_backup: the backup directory afterwards, the file being
\* named by the second `now`; opened in mode 'a', header only if new
SaveToCsvBackup(files, now, obs, location_id, error_message) ==
    LET file_exists == now \in DOMAIN files
        old == IF file_exists THEN files[now] ELSE <<>>
        header == IF ~file_exists THEN <<HeaderRow>> ELSE <<>>
        row == BackupRow(obs, location_id, error_message)
    IN  (now :> (old \o header \o <<row>>)) @@ files

\* (mutant) the except clause of insert_observation reporting success
InsertObservationResultSwallow(table, location_id, obs, outcome) ==
    LET row == [location_id |-> location_id,
                observation_date |-> obs.observation_date,
                lst |-> obs.lst, ndvi |-> obs.ndvi]
    IN  IF outcome = "ok"
        THEN [table |-> Upsert(table, row), stmts |-> <<"upsert">>,
              committed |-> TRUE, rollbacks |-> 0, success |-> TRUE]
        ELSE [table |-> table,
              stmts |-> IF outcome = "commit_error" THEN <<"upsert">> ELSE <<>>,
              committed |-> FALSE, rollbacks |-> 1, success |-> TRUE]

\* insert_observation(connection, location_id, observation), the store
\* answering with outcome: the table afterwards, the statements that reached
\* the store, whether they were committed, the rollbacks issued, the value
\* returned.  pymysql.Error from execute or commit: rollback, return False.
InsertObservationResult(table, location_id, obs, outcome) ==
    LET row == [location_id |-> location_id,
                observation_date |-> obs.observation_date,
                lst |-> obs.lst, ndvi |-> obs.ndvi]
    IN  IF outcome = "ok"
        THEN [table |-> Upsert(table, row), stmts |-> <<"upsert">>,
              committed |-> TRUE, rollbacks |-> 0, success |-> TRUE]
        ELSE [table |-> table,
              stmts |-> IF outcome = "commit_error" THEN <<"upsert">> ELSE <<>>,
              committed |-> FALSE, rollbacks |-> 1, success |-> FALSE]

\* (mutant) connection.close() as the last statement of the try block: it is
\* skipped when an exception is on its way
FinallyClauseOnSuccessOnly(conn, exc) ==
    IF conn # None /\ exc = None
    THEN [connection |-> Connection(FALSE), closes |-> 1]
    ELSE [connection |-> conn, closes |-> 0]

\* finally: if connection: connection.close() -- the connection afterwards
\* and the number of close() calls, whatever exception exc is on its way
FinallyClause(conn, exc) ==
    IF conn # None
    THEN [connection |-> Connection(FALSE), closes |-> 1]
    ELSE [connection |-> conn, closes |-> 0]

\* os.environ as far as get_mysql_config reads it: MYSQL_PASSWORD unset, or
\* set to a password
Environments == {<<>>, [MYSQL_PASSWORD |-> "secret"]}

\* get_mysql_config(): os.environ.get('MYSQL_PASSWORD', ''); an empty
\* password prints a warning (warned) and the configuration is returned all
\* the same
GetMysqlConfig(env) ==
    LET password == IF "MYSQL_PASSWORD" \in DOMAIN env
                    THEN env.MYSQL_PASSWORD ELSE ""
    IN  [user |-> "root", password |-> password, warned |-> password = ""]

\* (mutant) any answer of the query taken for "found"
VerifyLocationExistsAnyRow(locations, location_id, queryOk) == queryOk

\* verify_location_exists: a failing query counts as "not there"
VerifyLocationExists(locations, location_id, queryOk) ==
    queryOk /\ location_id \in locations

\* the locations table
Locations == {1}

\* payloads as collect_satellite_data writes them
LstPayload(c) ==
    [dataset |-> "LST", pixel_value |-> Float(c + 273150),
     pixel_value_celsius |-> Float(c),
     pixel_location |-> [row |-> 0, col |-> 0, latitude |-> 0, longitude |-> 0],
     window_statistics |-> None]
NdviPayload(v) ==
    [dataset |-> "NDVI", pixel_value |-> Float(v),
     pixel_location |-> [row |-> 0, col |-> 0, latitude |-> 0, longitude |-> 0],
     window_statistics |-> None]
Record(d, obs) ==
    [location |-> [latitude |-> 0, longitude |-> 0, name |-> "Observation Point"],
     observation_date |-> d, processing_time |-> "now",
     data_source |-> "mock", observations |-> obs]

InputRecords ==
    {Record(d, [lst |-> LstPayload(18354), ndvi |-> NdviPayload(7512)]) : d \in Dates}
    \cup {Record("2026-01-08", [lst |-> [error |-> "acquire"], ndvi |-> NdviPayload(7525)]),
          Record("2026-01-08", [lst |-> LstPayload(-125), ndvi |-> NdviPayload(7525)]),
          Record("2026-01-08", [lst |-> LstPayload(18354), ndvi |-> [error |-> "nodataset"]]),
          \* an lst entry without the Celsius value, no ndvi entry
          Record("2026-01-08", [lst |-> NdviPayload(7512)]),
          \* no observations at all
          [observation_date |-> "2026-01-08", data_source |-> "mock"]}

NoLog == [connects |-> 0, stmts |-> <<>>, rollbacks |-> 0, closes |-> 0,
          appended |-> <<>>, committed |-> FALSE, loaded |-> FALSE,
          failure |-> "none",
          table0 |-> {}, backups0 |-> <<>>]

InitIngest ==
    /\ ipc = "idle"
    /\ iargs = [location_id |-> 0, backup_only |-> FALSE]
    /\ PYMYSQL_AVAILABLE \in BOOLEAN     \* whether "import pymysql" succeeds
    /\ environ \in Environments
    /\ mysql_config = None
    /\ input_file = None
    /\ observation = None
    /\ connection = None
    /\ pending = None
    /\ exit_code = None
    /\ observations = {}
    /\ ingested = <<>>
    /\ backups = <<>>
    /\ clock = 0
    /\ ilog = NoLog
    /\ iruns = 0

\* the process starts: arguments parsed
IngestStart ==
    /\ ipc \in {"idle", "exited"}
    /\ iruns < MaxIngestRuns
    /\ \E l \in {1, 2}, b \in BOOLEAN :
           iargs' = [location_id |-> l, backup_only |-> b]
    /\ input_file' \in InputRecords \cup {None}
    /\ observation' = None
    /\ connection' = None
    /\ pending' = None
    /\ exit_code' = None
    /\ ilog' = [NoLog EXCEPT !.table0 = observations, !.backups0 = backups]
    /\ iruns' = iruns + 1
    /\ ipc' = "load"
    /\ mysql_config' = None
    /\ UNCHANGED <<PYMYSQL_AVAILABLE, environ, observations, ingested, backups, clock, xvars, cvars>>

\* load_json_data and extract_observation_data; a file that is missing or
\* is not JSON raises into the outer handler: sys.exit(1)
LoadAndExtract ==
    /\ ipc = "load"
    /\ IF input_file = None
       THEN /\ exit_code' = 1
            /\ ipc' = "exited"
            /\ UNCHANGED <<observation, ilog>>
       ELSE /\ observation' = ExtractObservationData(input_file)
            /\ ilog' = [ilog EXCEPT !.loaded = TRUE]
            /\ ipc' = "mode"
            /\ UNCHANGED exit_code
    /\ UNCHANGED <<iargs, PYMYSQL_AVAILABLE, environ, mysql_config, input_file, connection, pending,
                   observations, ingested, backups, clock, iruns, xvars, cvars>>

\* (mutant) the backup written in backup-only mode alone: the failure paths
\* leave without saving
BackupUnlessError(error_message) ==
    IF error_message # None
    THEN UNCHANGED <<clock, backups, ilog>>
    ELSE \E now \in clock..MaxClock :
            /\ clock' = now
            /\ backups' = SaveToCsvBackup(backups, now, observation,
                                          iargs.location_id, error_message)
            /\ ilog' = [ilog EXCEPT !.appended = Append(@, now)]

\* one call of save_to_csv_backup at a second the clock has reached
Backup(error_message) ==
    \E now \in clock..MaxClock :
        /\ clock' = now
        /\ backups' = SaveToCsvBackup(backups, now, observation,
                                      iargs.location_id, error_message)
        /\ ilog' = [ilog EXCEPT !.appended = Append(@, now)]

\* if args.backup_only: save_to_csv_backup(...); return
BackupOnly ==
    /\ ipc = "mode"
    /\ iargs.backup_only
    /\ Backup(None)
    /\ exit_code' = 0
    /\ ipc' = "exited"
    /\ UNCHANGED <<iargs, PYMYSQL_AVAILABLE, environ, mysql_config, input_file, observation, connection,
                   pending, observations, ingested, iruns, xvars, cvars>>

\* get_mysql_config and the pymysql check: without the driver, back up and
\* sys.exit(1)
CheckDriver ==
    /\ ipc = "mode"
    /\ ~iargs.backup_only
    /\ mysql_config' = GetMysqlConfig(environ)
    /\ IF ~PYMYSQL_AVAILABLE
       THEN /\ Backup(Str("pymysql not installed"))
            /\ exit_code' = 1
            /\ ipc' = "exited"
       ELSE /\ ipc' = "connect"
            /\ UNCHANGED <<backups, clock, ilog, exit_code>>
    /\ UNCHANGED <<iargs, PYMYSQL_AVAILABLE, environ, input_file, observation, connection,
                   pending, observations, ingested, iruns, xvars, cvars>>

\* connection = connect_to_mysql(mysql_config): pymysql.Error is re-raised
Connect ==
    /\ ipc = "connect"
    /\ \E ok \in BOOLEAN :
        IF ok THEN /\ connection' = Connection(TRUE)
                   /\ ilog' = [ilog EXCEPT !.connects = @ + 1]
                   /\ ipc' = "verify"
                   /\ UNCHANGED pending
        ELSE /\ pending' = Str("connect error")
             /\ ilog' = [ilog EXCEPT !.connects = @ + 1, !.failure = "connect"]
             /\ ipc' = "except"
             /\ UNCHANGED connection
    /\ UNCHANGED <<iargs, PYMYSQL_AVAILABLE, environ, mysql_config, input_file, observation, exit_code,
                   observations, ingested, backups, clock, iruns, xvars, cvars>>

\* if not verify_location_exists(...): raise ValueError
Verify ==
    /\ ipc = "verify"
    /\ \E queryOk \in BOOLEAN :
        /\ ilog' = [ilog EXCEPT !.stmts = Append(@, "select"),
                                !.failure = IF queryOk THEN @ ELSE "query"]
        /\ IF VerifyLocationExists(Locations, iargs.location_id, queryOk)
           THEN /\ ipc' = "insert"
                /\ UNCHANGED pending
           ELSE /\ pending' = Str("location does not exist")
                /\ ipc' = "except"
    /\ UNCHANGED <<iargs, PYMYSQL_AVAILABLE, environ, mysql_config, input_file, observation, connection,
                   exit_code, observations, ingested, backups, clock, iruns, xvars, cvars>>

\* success = insert_observation(...); a False becomes RuntimeError
InsertObservation ==
    /\ ipc = "insert"
    /\ \E outcome \in {"ok", "execute_error", "commit_error"} :
        LET r == InsertObservationResult(observations, iargs.location_id,
                                         observation, outcome)
        IN  /\ observations' = r.table
            /\ ingested' = IF r.committed
                           THEN (<<iargs.location_id, observation.observation_date>>
                                    :> [lst |-> observation.lst,
                                        ndvi |-> observation.ndvi]) @@ ingested
                           ELSE ingested
            /\ ilog' = [ilog EXCEPT !.stmts = @ \o r.stmts,
                                    !.rollbacks = @ + r.rollbacks,
                                    !.committed = r.committed,
                                    !.failure = IF outcome = "ok" THEN @ ELSE outcome]
            /\ IF r.success
               THEN /\ ipc' = "finally"
                    /\ UNCHANGED pending
               ELSE /\ pending' = Str("insert failed")
                    /\ ipc' = "except"
    /\ UNCHANGED <<iargs, PYMYSQL_AVAILABLE, environ, mysql_config, input_file, observation, connection,
                   exit_code, backups, clock, iruns, xvars, cvars>>

\* except Exception as e: save_to_csv_backup(..., str(e)); sys.exit(1)
Handler ==
    /\ ipc = "except"
    /\ Backup(pending)
    /\ ipc' = "finally"
    /\ UNCHANGED <<iargs, PYMYSQL_AVAILABLE, environ, mysql_config, input_file, observation, connection,
                   pending, exit_code, observations, ingested, iruns, xvars, cvars>>

\* finally: if connection: connection.close(); then the process ends, with
\* code 1 when sys.exit(1) is on its way
Finally ==
    /\ ipc = "finally"
    /\ LET f == FinallyClause(connection, pending)
       IN  /\ connection' = f.connection
           /\ ilog' = [ilog EXCEPT !.closes = @ + f.closes]
    /\ exit_code' = IF pending # None THEN 1 ELSE 0
    /\ ipc' = "exited"
    /\ UNCHANGED <<iargs, PYMYSQL_AVAILABLE, environ, mysql_config, input_file, observation, pending,
                   observations, ingested, backups, clock, iruns, xvars, cvars>>

NextIngest ==
    \/ IngestStart \/ LoadAndExtract \/ BackupOnly \/ CheckDriver \/ Connect
    \/ Verify \/ InsertObservation \/ Handler \/ Finally

\* ------------------------------------------------------- specifications
InitX == InitExtract /\ InitCollect /\ InitIngest /\ ~PYMYSQL_AVAILABLE /\ environ = <<>>
InitC == InitExtractIdle /\ InitCollect /\ InitIngest /\ ~PYMYSQL_AVAILABLE /\ environ = <<>>
InitI == InitExtractIdle /\ InitCollect /\ InitIngest

SpecExtract == InitX /\ [][NextExtract]_vars
SpecCollect == InitC /\ [][NextCollect]_vars
SpecIngest == InitI /\ [][NextIngest]_vars

\* ------------------------------------------------------- claims: collector
IsErrorPayload(e) == DOMAIN e = {"error"}
IsSuccessPayload(e, p) ==
    /\ "error" \notin DOMAIN e
    /\ {"dataset", "pixel_value", "pixel_location"} \subseteq DOMAIN e
    /\ e.dataset = p

\* the mock generator was called for product p in the call that returned
MockInvoked(p) == acq[p] \in {"mock", "mock_failed"}

\* the file the acquisition of p left in the scratch directory
AcquiredPath(p) ==
    IF acq[p] = "mock" THEN MockPath(cargs.target_date, p) ELSE Path(<<"DL", p>>)

\* C1: the returned record's data_source is "mock" whenever the rasters came
\* from the mock generator (requested, or substituted because the service
\* was unavailable), and "remote" otherwise.
C1_DataSourceTellsMock ==
    cpc = "returned" =>
        result.data_source =
            IF \E p \in {"LST", "NDVI"} : MockInvoked(p) THEN "mock" ELSE "remote"

\* C7: a successful extract_pixel_value result has no window_statistics key
\* when every cell of the clipped window around the matched pixel is
\* not-a-number, and has the key, with mean, std, min and max, otherwise.
C7_StatisticsAbsentWhenAllNaN ==
    (xpc = "returned" /\ "error" \notin DOMAIN xresult) =>
        LET data == xfile.img[xname]
            loc == xresult.pixel_location
            b == WindowBounds(loc.row, loc.col, Rows(data), Cols(data))
        IN  IF WindowClean(data, b) = {}
            THEN "window_statistics" \notin DOMAIN xresult
            ELSE /\ "window_statistics" \in DOMAIN xresult
                 /\ {"mean", "std", "min", "max"}
                        \subseteq DOMAIN xresult.window_statistics

\* the extraction of p's file fails (missing libraries, unreadable file,
\* missing dataset, missing geometry, empty grid)
ExtractionFails(p) ==
    LET f == fs[AcquiredPath(p)]
    IN  \/ ~cenv.H5PY_AVAILABLE \/ ~cenv.NUMPY_AVAILABLE
        \/ ~f.readable
        \/ p \notin DOMAIN f.img
        \/ f.geo = None
        \/ Rows(f.img[p]) = 0

\* C8: collect_satellite_data returns a record and never raises; the record
\* holds exactly the entries lst and ndvi, each a success payload or an
\* {error} payload; a product's entry is an {error} exactly when its own
\* acquisition (no path, or a path where no file is) or its own extraction
\* failed, whatever happened to the other product.
C8_ProductsIndependent ==
    /\ cpc # "raised"
    /\ cpc = "returned" =>
        /\ DOMAIN result.observations = {"lst", "ndvi"}
        /\ \A p \in {"LST", "NDVI"} :
            LET e == result.observations[Lower(p)]
                failed == \/ acq[p] \notin {"mock", "downloaded", "ghost"}
                          \/ AcquiredPath(p) \notin DOMAIN fs
                          \/ ExtractionFails(p)
            IN  /\ IsErrorPayload(e) \/ IsSuccessPayload(e, p)
                /\ IsErrorPayload(e) <=> failed

\* witness of C8: LST failed at the service, NDVI was downloaded and extracted
C8_Witness ==
    /\ cpc = "returned"
    /\ acq["LST"] = "transport_error"
    /\ IsErrorPayload(result.observations.lst)
    /\ acq["NDVI"] = "downloaded"
    /\ IsSuccessPayload(result.observations.ndvi, "NDVI")

\* C9 as stated: the mock generator is invoked for every product when mock
\* was requested or the real service is unconfigured or unavailable, missing
\* credentials included, and the product is then extracted from a mock file
\* rather than reported as an acquisition error.
C9_MockWheneverUnavailable ==
    cpc = "returned" =>
        \A p \in {"LST", "NDVI"} :
            (cargs.use_mock \/ ~cenv.GPORTAL_AVAILABLE \/ ~cenv.credentials
                \/ acq[p] = "transport_error")
            => /\ MockInvoked(p)
               /\ result.observations[Lower(p)] # [error |-> "acquire"]

\* C9 amended: the mock generator is invoked exactly when mock was requested
\* or the client library is unavailable; a file it produced is what the
\* product is extracted from; with the library present and mock not
\* requested, missing credentials or a failing service give the product an
\* acquisition error.
C9_MockOnRequestOrNoClient ==
    cpc = "returned" =>
        \A p \in {"LST", "NDVI"} :
            LET e == result.observations[Lower(p)]
            IN  /\ MockInvoked(p) <=> (cargs.use_mock \/ ~cenv.GPORTAL_AVAILABLE)
                /\ acq[p] = "mock" =>
                    /\ e # [error |-> "acquire"]
                    /\ IsSuccessPayload(e, p)
                    /\ e.pixel_location.latitude
                         \in {cargs.lat + d : d \in -(MockDim - 1)..(MockDim - 1)}
                /\ (~cargs.use_mock /\ cenv.GPORTAL_AVAILABLE
                        /\ (~cenv.credentials \/ acq[p] = "transport_error"))
                    => e = [error |-> "acquire"]

\* witness of C9: mock was not requested, the client library is missing, and
\* both products were extracted from generated files
C9_Witness ==
    /\ cpc = "returned"
    /\ ~cargs.use_mock
    /\ ~cenv.GPORTAL_AVAILABLE
    /\ \A p \in {"LST", "NDVI"} :
        acq[p] = "mock" /\ IsSuccessPayload(result.observations[Lower(p)], p)

\* ------------------------------------------------------- claims: ingestor
Exited == ipc = "exited"

\* every row a backup file held when the process started is still there,
\* in place
BackupsPreserved ==
    \A ts \in DOMAIN ilog.backups0 :
        /\ ts \in DOMAIN backups
        /\ Len(backups[ts]) >= Len(ilog.backups0[ts])
        /\ SubSeq(backups[ts], 1, Len(ilog.backups0[ts])) = ilog.backups0[ts]

OldLen(ts) == IF ts \in DOMAIN ilog.backups0 THEN Len(ilog.backups0[ts]) ELSE 0

\* the positions <<file, line>> of the data rows the process appended
AppendedRows ==
    UNION {{<<ts, k>> : k \in {n \in (OldLen(ts) + 1)..Len(backups[ts]) :
                                   backups[ts][n].kind = "data"}} :
           ts \in DOMAIN backups}

\* the process appended exactly one data row, for its observation, and its
\* error column is empty (blank) or not
OneRowAppended(blank) ==
    /\ observation # None
    /\ BackupsPreserved
    /\ Cardinality(AppendedRows) = 1
    /\ \A pos \in AppendedRows :
        LET row == backups[pos[1]][pos[2]]
        IN  /\ row.location_id = iargs.location_id
            /\ row.observation_date = observation.observation_date
            /\ (row.error = "") <=> blank

\* the header is the first row of every backup file and occurs once
HeaderOnce ==
    \A ts \in DOMAIN backups :
        /\ Len(backups[ts]) >= 2
        /\ backups[ts][1] = HeaderRow
        /\ \A k \in 2..Len(backups[ts]) : backups[ts][k].kind = "data"

C3_IdempotentUpsert ==
    /\ \A r1, r2 \in observations :
        ObservationsKey(r1) = ObservationsKey(r2) => r1 = r2
    /\ (Exited /\ ilog.committed) =>
        /\ Cardinality({r \in observations : ObservationsKey(r) =
                <<iargs.location_id, observation.observation_date>>}) = 1
        /\ \A r \in observations :
            ObservationsKey(r) = <<iargs.location_id, observation.observation_date>>
            => r.lst = observation.lst /\ r.ndvi = observation.ndvi

\* witness of C3: the second ingestion of a key, both values different
C3_Witness ==
    /\ Exited /\ ilog.committed
    /\ \E r \in ilog.table0 :
        /\ ObservationsKey(r) = <<iargs.location_id, observation.observation_date>>
        /\ r.lst # observation.lst
        /\ r.ndvi # observation.ndvi

StoreFailed == ilog.failure \in {"connect", "query", "execute_error", "commit_error"}

\* C4 as stated: in a run that is not backup-only, every store-level failure
\* (connect, existence query, upsert, commit) triggers a rollback, is
\* surfaced as failure, appends a row to the backup CSV and ends the process
\* with a non-zero code.
C4_StoreFailureRollsBack ==
    (Exited /\ ~iargs.backup_only /\ StoreFailed) =>
        /\ ilog.rollbacks >= 1
        /\ OneRowAppended(FALSE)
        /\ exit_code = 1

\* C4 amended: every store-level failure is surfaced as failure, appends one
\* row with its error to the backup CSV, leaves the table as it was and ends
\* the process with a non-zero code; a rollback is issued exactly when the
\* upsert or its commit failed, not when the connection or the existence
\* query did.
C4_StoreFailureBacksUp ==
    (Exited /\ ~iargs.backup_only /\ StoreFailed) =>
        /\ OneRowAppended(FALSE)
        /\ exit_code = 1
        /\ observations = ilog.table0
        /\ ~ilog.committed
        /\ ilog.rollbacks =
             IF ilog.failure \in {"execute_error", "commit_error"} THEN 1 ELSE 0

\* witness of C4: the commit of the upsert failed
C4_Witness ==
    /\ Exited /\ ilog.failure = "commit_error"
    /\ ilog.stmts = <<"select", "upsert">>
    /\ ilog.rollbacks = 1

\* C5 as stated: a backup-only run attempts no store connection, terminates
\* successfully, and the CSV file it wrote is the header row followed by
\* exactly one data row with an empty error column.
C5_BackupOnlyFile ==
    (Exited /\ iargs.backup_only) =>
        /\ ilog.connects = 0
        /\ exit_code = 0
        /\ Len(ilog.appended) = 1
        /\ \E ts \in DOMAIN backups :
            /\ ilog.appended = <<ts>>
            /\ backups[ts] = <<HeaderRow, BackupRow(observation, iargs.location_id, None)>>

\* C5 amended: a backup-only run whose input record was loaded attempts no
\* store connection, terminates successfully and appends exactly one data row
\* with an empty error column to the backup file of the current second; the
\* header is the first row of that file and occurs once; the file is the
\* header plus that row unless a backup was already written in that second.
C5_BackupOnlyAppends ==
    (Exited /\ iargs.backup_only /\ ilog.loaded) =>
        /\ ilog.connects = 0
        /\ ilog.stmts = <<>>
        /\ observations = ilog.table0
        /\ exit_code = 0
        /\ OneRowAppended(TRUE)
        /\ HeaderOnce
        /\ \E ts \in DOMAIN backups :
            /\ ilog.appended = <<ts>>
            /\ backups[ts][Len(backups[ts])] =
                  BackupRow(observation, iargs.location_id, None)
            /\ ts \notin DOMAIN ilog.backups0 =>
                  backups[ts] = <<HeaderRow,
                                  BackupRow(observation, iargs.location_id, None)>>

\* witness of C5: a backup-only run appended to a file an earlier run had
\* written in the same second
C5_Witness ==
    /\ Exited /\ iargs.backup_only /\ ilog.loaded
    /\ Len(ilog.appended) = 1
    /\ ilog.appended[1] \in DOMAIN ilog.backups0

NullEntry(json_data, k, field) ==
    \/ "observations" \notin DOMAIN json_data
    \/ k \notin DOMAIN json_data.observations
    \/ "error" \in DOMAIN json_data.observations[k]
    \/ field \notin DOMAIN json_data.observations[k]

\* C10: extract_observation_data maps every record, without failing, to
\* (observation_date, lst, ndvi); lst is null exactly when the lst entry is
\* missing, is an {error} or lacks pixel_value_celsius, ndvi exactly when the
\* ndvi entry is missing, is an {error} or lacks pixel_value; a null field
\* does not make the run fail or skip the store write: a run fails only for
\* a missing driver or a store-level cause, and a committed upsert stores
\* the nulls.
C10_NullFieldsIngested ==
    /\ (input_file # None /\ ipc \notin {"idle", "load"}) =>
        /\ observation # None
        /\ observation.observation_date = input_file.observation_date
        /\ (observation.lst = None)
             <=> NullEntry(input_file, "lst", "pixel_value_celsius")
        /\ (observation.ndvi = None)
             <=> NullEntry(input_file, "ndvi", "pixel_value")
    /\ (Exited /\ ilog.loaded /\ ~iargs.backup_only) =>
        /\ exit_code = 1 <=>
             (~PYMYSQL_AVAILABLE \/ StoreFailed
                \/ iargs.location_id \notin Locations)
        /\ exit_code = 0 =>
             [location_id |-> iargs.location_id,
              observation_date |-> observation.observation_date,
              lst |-> observation.lst, ndvi |-> observation.ndvi]
                \in observations

\* witness of C10: a record whose lst entry is an {error} was uploaded
C10_Witness ==
    /\ Exited /\ ilog.committed /\ exit_code = 0
    /\ "observations" \in DOMAIN input_file
    /\ "lst" \in DOMAIN input_file.observations
    /\ "error" \in DOMAIN input_file.observations.lst
    /\ \E r \in observations : r.lst = None /\ r.ndvi # None

\* C11: a run (not backup-only) without a configured store password is
\* fatal: it completes with a non-zero code and writes nothing to the
\* observations table.
C11_MissingPasswordFatal ==
    (Exited /\ ~iargs.backup_only /\ "MYSQL_PASSWORD" \notin DOMAIN environ) =>
        /\ exit_code = 1
        /\ observations = ilog.table0

\* C12: in every run at most one store connection is opened, at most two
\* statements are executed on it, in the order existence check then upsert,
\* and a connection that was opened is closed (once) by the time the process
\* has terminated, on the success path and on every failure path; no
\* statement is executed without an open connection.
C12_OneShortLivedConnection ==
    /\ ilog.connects <= 1
    /\ ilog.stmts \in {<<>>, <<"select">>, <<"select", "upsert">>}
    /\ ilog.stmts # <<>> => connection # None
    /\ ilog.closes <= 1
    /\ (connection # None /\ connection.open) => ilog.closes = 0
    /\ Exited => \/ connection = None /\ ilog.closes = 0
                 \/ /\ connection # None
                    /\ ilog.connects = 1
                    /\ ~connection.open
                    /\ ilog.closes = 1

\* witness of C12: the existence query failed on the one connection, which
\* was closed on the way out
C12_Witness ==
    /\ Exited /\ exit_code = 1
    /\ ilog.connects = 1
    /\ ilog.failure = "query"
    /\ ilog.stmts = <<"select">>
    /\ connection = Connection(FALSE)
    /\ ilog.closes = 1

\* ------------------------------------------------------- claims: scratch
\* C13: across any sequence of collection runs every scratch raster file is
\* written exactly once: no acquisition, mock or real, opens for writing a
\* path that an earlier acquisition already wrote.
C13_ScratchWriteOnce ==
    \A path \in DOMAIN writes : writes[path] = 1

\* ------------------------------------------------------- claims: extractor
\* the call was made on a file that holds the dataset, the geometry and at
\* least one cell
WellFormedInput ==
    /\ xfile.readable
    /\ xname \in DOMAIN xfile.img
    /\ xfile.geo # None
    /\ Rows(xfile.img[xname]) * Cols(xfile.img[xname]) > 0

\* squared planar distance of cell (i, j) of the file to the query coordinate
SquaredDistance(i, j) ==
    (xfile.geo.Latitude[i][j] - xlat) * (xfile.geo.Latitude[i][j] - xlat)
  + (xfile.geo.Longitude[i][j] - xlon) * (xfile.geo.Longitude[i][j] - xlon)

\* C14: for every non-empty grid and every query coordinate the call
\* succeeds and selects a cell whose planar distance to the coordinate is
\* minimal over all cells, the first in row-major order among the cells at
\* that distance; pixel_location reports the row, column, latitude and
\* longitude of that cell (not the query point), and pixel_value is its value.
C14_NearestFirstRowMajor ==
    (xpc = "returned" /\ WellFormedInput) =>
        /\ "error" \notin DOMAIN xresult
        /\ LET loc == xresult.pixel_location
               data == xfile.img[xname]
           IN  /\ loc.row \in 0..(Rows(data) - 1)
               /\ loc.col \in 0..(Cols(data) - 1)
               /\ \A i \in 0..(Rows(data) - 1), j \in 0..(Cols(data) - 1) :
                    /\ SquaredDistance(loc.row, loc.col) <= SquaredDistance(i, j)
                    /\ SquaredDistance(i, j) = SquaredDistance(loc.row, loc.col)
                         => (loc.row < i \/ (loc.row = i /\ loc.col <= j))
               /\ loc.latitude = xfile.geo.Latitude[loc.row][loc.col]
               /\ loc.longitude = xfile.geo.Longitude[loc.row][loc.col]
               /\ xresult.pixel_value = data[loc.row][loc.col]

\* witness of C14: four cells are equally near the query point, which is no
\* cell's coordinate; the one reported is the first of them in row-major order
C14_Witness ==
    /\ xpc = "returned" /\ WellFormedInput
    /\ "error" \notin DOMAIN xresult
    /\ LET loc == xresult.pixel_location
           data == xfile.img[xname]
       IN  /\ Cardinality({c \in (0..(Rows(data) - 1)) \X (0..(Cols(data) - 1)) :
                    SquaredDistance(c[1], c[2])
                        = SquaredDistance(loc.row, loc.col)}) = 4
           /\ <<loc.latitude, loc.longitude>> # <<xlat, xlon>>
           /\ loc.row > 0 /\ loc.col > 0

\* the cells of the grid at most two rows and two columns away from (i, j)
Neighbourhood(i, j, rows, cols) ==
    {c \in (0..(rows - 1)) \X (0..(cols - 1)) :
        /\ c[1] >= i - 2 /\ c[1] <= i + 2
        /\ c[2] >= j - 2 /\ c[2] <= j + 2}

\* C15: for every grid shape and every matched pixel (i, j) the statistics
\* window is the set of cells with row in [max(0, i-2), min(rows, i+3)) and
\* column in [max(0, j-2), min(cols, j+3)); it lies inside the grid, contains
\* (i, j), has at most 5 rows and 5 columns and holds no cell reached by
\* wraparound or padding: it is exactly the cells of the grid within two
\* rows and two columns of (i, j), and the reported min and max are those of
\* the numbers in these cells.
C15_WindowClipped ==
    (xpc = "returned" /\ WellFormedInput /\ "error" \notin DOMAIN xresult) =>
        LET data == xfile.img[xname]
            rows == Rows(data)
            cols == Cols(data)
            i == xresult.pixel_location.row
            j == xresult.pixel_location.col
            b == WindowBounds(i, j, rows, cols)
            w == WindowCells(b)
            numbers == {data[c[1]][c[2]].v :
                           c \in {n \in Neighbourhood(i, j, rows, cols) :
                                      ~IsNaN(data[n[1]][n[2]])}}
        IN  /\ b.i_start = (IF i - 2 > 0 THEN i - 2 ELSE 0)
            /\ b.i_end = (IF i + 3 < rows THEN i + 3 ELSE rows)
            /\ b.j_start = (IF j - 2 > 0 THEN j - 2 ELSE 0)
            /\ b.j_end = (IF j + 3 < cols THEN j + 3 ELSE cols)
            /\ w \subseteq (0..(rows - 1)) \X (0..(cols - 1))
            /\ <<i, j>> \in w
            /\ b.i_end - b.i_start <= 5
            /\ b.j_end - b.j_start <= 5
            /\ w = Neighbourhood(i, j, rows, cols)
            /\ IF numbers = {} THEN xresult.window_statistics = None
               ELSE /\ xresult.window_statistics # None
                    /\ \A v \in numbers :
                        /\ xresult.window_statistics.min.v <= v
                        /\ xresult.window_statistics.max.v >= v
                    /\ xresult.window_statistics.min.v \in numbers
                    /\ xresult.window_statistics.max.v \in numbers

\* witness of C15: in a grid of six rows the window around a pixel of the
\* first column is clipped on the left and leaves out the first row: five
\* rows, three columns
C15_Witness ==
    /\ xpc = "returned" /\ WellFormedInput /\ "error" \notin DOMAIN xresult
    /\ Rows(xfile.img[xname]) = 6
    /\ xresult.pixel_location.row = 3
    /\ xresult.pixel_location.col = 0
    /\ xresult.window_statistics # None
    /\ Cardinality(WindowCells(WindowBounds(3, 0, Rows(xfile.img[xname]),
                                            Cols(xfile.img[xname])))) = 15

\* ------------------------------------------------------- claims: backup files
\* the backup files the process created or changed
ChangedFiles ==
    {ts \in DOMAIN backups :
        ts \notin DOMAIN ilog.backups0 \/ backups[ts] # ilog.backups0[ts]}

\* C16 as stated: a run that writes a backup writes to a CSV file of its
\* own, never to a file an earlier run wrote, and in every backup file the
\* header is the first row and occurs exactly once.
C16_OwnFilePerRun ==
    /\ \A ts \in ChangedFiles : ts \notin DOMAIN ilog.backups0
    /\ HeaderOnce

\* C16 amended: a run that writes a backup appends one row to the file named
\* by the second of the write and touches no other file; it creates that
\* file, header first, unless a run wrote a backup in the same second
\* before, and then it appends below the rows of that run without a second
\* header; so two runs share a file exactly when their backups fall in the
\* same second, and in every backup file the header is the first row and
\* occurs exactly once.
C16_FilePerSecond ==
    /\ HeaderOnce
    /\ BackupsPreserved
    /\ Len(ilog.appended) <= 1
    /\ ChangedFiles = {ilog.appended[k] : k \in 1..Len(ilog.appended)}
    /\ \A ts \in ChangedFiles :
        /\ Len(backups[ts]) = (IF ts \in DOMAIN ilog.backups0
                               THEN Len(ilog.backups0[ts]) + 1 ELSE 2)
        /\ backups[ts][Len(backups[ts])].kind = "data"
        /\ backups[ts][Len(backups[ts])].location_id = iargs.location_id

\* witness of C16: the second run wrote its backup one second after the
\* first, into a file of its own; the file of the first run is as it was
C16_Witness ==
    /\ Exited
    /\ ilog.appended = <<1>>
    /\ 0 \in DOMAIN ilog.backups0
    /\ 1 \notin DOMAIN ilog.backups0
    /\ backups[0] = ilog.backups0[0]
    /\ Len(backups[1]) = 2

\* ------------------------------------------------------- claims: durability
\* the row of the running process's observation in the observations table
StoredRow ==
    [location_id |-> iargs.location_id,
     observation_date |-> observation.observation_date,
     lst |-> observation.lst, ndvi |-> observation.ndvi]

\* a data row for the observation was appended to a backup file by the
\* running process
BackedUp ==
    \E pos \in AppendedRows :
        LET row == backups[pos[1]][pos[2]]
        IN  /\ row.location_id = iargs.location_id
            /\ row.observation_date = observation.observation_date
            /\ row.lst = CsvField(observation.lst)
            /\ row.ndvi = CsvField(observation.ndvi)

C18_LatestValuesStored ==
    /\ observations =
         {[location_id |-> k[1], observation_date |-> k[2],
           lst |-> ingested[k].lst, ndvi |-> ingested[k].ndvi] :
              k \in DOMAIN ingested}
    /\ (Exited /\ ilog.committed) =>
        \A r \in observations :
            ObservationsKey(r) = <<iargs.location_id, observation.observation_date>>
            => /\ NullEntry(input_file, "lst", "pixel_value_celsius") => r.lst = None
               /\ NullEntry(input_file, "ndvi", "pixel_value") => r.ndvi = None
               /\ r = StoredRow

\* witness of C18: the key was stored with a number for lst; the record of
\* the later ingestion carries an {error} for lst, and the stored lst is null
C18_Witness ==
    /\ Exited /\ ilog.committed
    /\ "observations" \in DOMAIN input_file
    /\ "lst" \in DOMAIN input_file.observations
    /\ "error" \in DOMAIN input_file.observations.lst
    /\ \E r \in ilog.table0 :
        /\ ObservationsKey(r) = <<iargs.location_id, observation.observation_date>>
        /\ r.lst # None
    /\ \A r \in observations :
        ObservationsKey(r) = <<iargs.location_id, observation.observation_date>>
        => r.lst = None
====
